---- MODULE Spec2Model ----
(***************************************************************************)
(* Model of src/queryinterface.js: the QueryInterface result queue.        *)
(*                                                                         *)
(* A QueryInterface holds `options` (parent, stopPropagation,              *)
(* createdDefault, fallbackFn) and `_results`, the queued results.         *)
(* $queueResult / $queueFailure push, $clearQueue empties (optionally up   *)
(* the parent chain), $query shifts the oldest result, or delegates to the *)
(* parent, or calls a fallback function, or throws.                        *)
(*                                                                         *)
(* JavaScript values are encoded as follows.                               *)
(*   undefined            the string "undefined"                           *)
(*   a Boolean option     "true" / "false" / "undefined" where the code    *)
(*                        distinguishes undefined, BOOLEAN where it only   *)
(*                        tests truthiness                                 *)
(*   a payload            [cls, v]: cls = "plain" for a non-Error value,   *)
(*                        "Error" for an Error made by the caller,         *)
(*                        "BaseError" for new Errors.BaseError(x)          *)
(*   affectedRows         [kind, items]: kind = "array" for an Array       *)
(*   a queued entry       [content, options, type, object]: object is      *)
(*                        typeof entry === 'object'                        *)
(*   a function           the string naming it                             *)
(***************************************************************************)
EXTENDS Integers, Sequences, FiniteSets, TLC

VARIABLES
    options,   \* options[q]: this.options of queue q, set by the constructor
    results,   \* results[q]: this._results of queue q
    log,       \* history: the entries pushed on q since q was last cleared
    out,       \* history: how the queries that shifted from q since then settled
    last,      \* history: the last call, its arguments and what it returned
    handles    \* the promises returned to callers since the last clear of the
               \* queue they were shifted from, in the order of the calls

vars == <<options, results, log, out, last, handles>>

\* The fixture: three QueryInterface objects.  A parent is passed to the
\* constructor, so it exists before its child: the parent of a queue is a
\* queue later in Order, or undefined.
Queues == {"A", "B", "C"}
Order == <<"A", "B", "C">>

Undefined == "undefined"
Tri == {"undefined", "true", "false"}

\* Total number of entries pushed on all queues since their last clear.
MaxQueued == 2

\* Depth of nested $query / $clearQueue calls followed in SpecWalk.  A chain
\* of the three queues needs depth 3; only a cycle of parents goes deeper.
MaxDepth == 4

Index(q) == CHOOSE i \in 1..Len(Order) : Order[i] = q

Later(q) == {p \in Queues : Index(p) > Index(q)}

Last(s) == s[Len(s)]

RECURSIVE SumLen(_, _)
SumLen(f, S) ==
    IF S = {} THEN 0
    ELSE LET q == CHOOSE x \in S : TRUE IN Len(f[q]) + SumLen(f, S \ {q})

(***************************************************************************)
(* Values                                                                  *)
(***************************************************************************)
Plain(v) == [cls |-> "plain", v |-> v]
ErrorObj(v) == [cls |-> "Error", v |-> v]
NoContent == [cls |-> "none", v |-> ""]

\* error instanceof Error
InstanceofError(c) == c.cls \in {"Error", "BaseError"}

\* new Errors.BaseError(error)
BaseError(c) == [cls |-> "BaseError", v |-> c.v]

UndefRows == [kind |-> "undefined", items |-> <<>>]
ArrayRows == [kind |-> "array", items |-> <<"r1">>]
OtherRows == [kind |-> "other", items |-> <<>>]

\* The options argument of $queueResult / $queueFailure.  given = FALSE is a
\* call without the argument.
NoOptions ==
    [given |-> FALSE, wasCreated |-> Undefined, affectedRows |-> UndefRows,
     convertNonErrors |-> Undefined]
EmptyOptions == [NoOptions EXCEPT !.given = TRUE]

\* options || {}
OrEmpty(opts) == IF opts.given THEN opts ELSE EmptyOptions

\* The function configured on queue q, and the one passed with a call.
FnOf(q) == "fn" \o q
CallFn == "fnCall"

(***************************************************************************)
(* What a call returns                                                     *)
(***************************************************************************)
NoRet ==
    [kind |-> "none", shape |-> "none", content |-> NoContent, created |-> FALSE,
     rows |-> <<>>, error |-> "none", fn |-> Undefined]

\* return this
ReturnThis == [NoRet EXCEPT !.kind = "this"]
\* bluebird.reject(content)
Reject(c) == [NoRet EXCEPT !.kind = "rejected", !.content = c]
\* bluebird.resolve(content)
Resolve(c) == [NoRet EXCEPT !.kind = "resolved", !.shape = "bare", !.content = c]
\* bluebird.resolve([content, created])
ResolveCreated(c, created) ==
    [NoRet EXCEPT !.kind = "resolved", !.shape = "created", !.content = c,
                  !.created = created]
\* bluebird.resolve([content, affectedRows])
ResolveRows(c, rows) ==
    [NoRet EXCEPT !.kind = "resolved", !.shape = "affectedRows", !.content = c,
                  !.rows = rows]
\* Mutant: the error is delivered through a rejected promise.
ThrowAsRejection(e) == [NoRet EXCEPT !.kind = "rejected", !.error = e]

\* throw new Errors.X()
Throw(e) == [NoRet EXCEPT !.kind = "thrown", !.error = e]
\* return fallbackFn(): whatever fn returns, which this code does not inspect
CallFallback(fn) == [NoRet EXCEPT !.kind = "returned", !.fn = fn]

(***************************************************************************)
(* $queueResult                                                            *)
(***************************************************************************)
\* Mutant: unshift instead of push.
queueResultFront(this, result, opts, res) ==
    [res EXCEPT ![this] =
        <<[content |-> result, options |-> OrEmpty(opts), type |-> "Success",
           object |-> TRUE]>> \o @]

\* Mutant: the entry is pushed on the parent's queue as well.
queueResultAlsoParent(this, result, opts, res) ==
    LET entry == [content |-> result, options |-> OrEmpty(opts), type |-> "Success",
                  object |-> TRUE]
    IN  [x \in Queues |->
            IF x = this \/ x = options[this].parent
            THEN Append(res[x], entry) ELSE res[x]]

queueResult(this, result, opts, res) ==
    [res EXCEPT ![this] =
        Append(@, [content |-> result, options |-> OrEmpty(opts), type |-> "Success",
           object |-> TRUE])]

(***************************************************************************)
(* $queueFailure                                                           *)
(***************************************************************************)
\* Mutant: the convertNonErrors flag is ignored.
ConvertErrorAlways(error, opts) ==
    IF ~InstanceofError(error) THEN BaseError(error) ELSE error

\* Mutant: the flag is read as "convert only when true".
ConvertErrorOnlyIfTrue(error, opts) ==
    IF opts.given /\ opts.convertNonErrors = "true" /\ ~InstanceofError(error)
    THEN BaseError(error)
    ELSE error

\* The conversion of lines 78-81.
ConvertError(error, opts) ==
    IF (~opts.given \/ opts.convertNonErrors # "false") /\ ~InstanceofError(error)
    THEN BaseError(error)
    ELSE error

queueFailure(this, error, opts, res) ==
    [res EXCEPT ![this] =
        Append(@, [content |-> ConvertError(error, opts), options |-> OrEmpty(opts),
                   type |-> "Failure", object |-> TRUE])]

(***************************************************************************)
(* $clearQueue: the queues' results after the call, and the queues visited *)
(***************************************************************************)
\* Mutant: the clear is passed to the parent without the options, so it stops
\* one level up.
clearQueueOneLevel(this, opts, res) ==
    LET cleared == [res EXCEPT ![this] = <<>>] IN
    IF opts.propagateClear /\ options[this].parent # Undefined
    THEN [results |-> [cleared EXCEPT ![options[this].parent] = <<>>],
          path |-> <<this, options[this].parent>>]
    ELSE [results |-> cleared, path |-> <<this>>]

RECURSIVE clearQueue(_, _, _)
clearQueue(this, opts, res) ==
    LET cleared == [res EXCEPT ![this] = <<>>] IN
    IF opts.propagateClear /\ options[this].parent # Undefined
    THEN LET up == clearQueue(options[this].parent, opts, cleared) IN
         [results |-> up.results, path |-> <<this>> \o up.path]
    ELSE [results |-> cleared, path |-> <<this>>]

(***************************************************************************)
(* $query: what the call returns, the queues' results after it, the queues *)
(* it visited, the queue it shifted an entry from and the entry, and the   *)
(* fallback functions it called                                            *)
(***************************************************************************)
NoEntry ==
    [content |-> NoContent, options |-> EmptyOptions, type |-> "none", object |-> TRUE]

\* Mutant: the two tests in the other order, so the default wins.
CreatedDefaultWins(this, result) ==
    LET byEntry == IF result.options.wasCreated # Undefined
                   THEN result.options.wasCreated = "true"
                   ELSE TRUE
    IN  IF options[this].createdDefault # Undefined
        THEN options[this].createdDefault = "true"
        ELSE byEntry

\* Lines 141-151.
Created(this, result) ==
    LET byDefault == IF options[this].createdDefault # Undefined
                     THEN options[this].createdDefault = "true"
                     ELSE TRUE
    IN  IF result.options.wasCreated # Undefined
        THEN result.options.wasCreated = "true"
        ELSE byDefault

\* Lines 152-158.
AffectedRows(result) ==
    IF result.options.affectedRows.kind = "array"
    THEN result.options.affectedRows.items
    ELSE <<>>

\* Mutant: includeAffectedRows is tested before includeCreated.
SettleRowsFirst(this, opts, result) ==
    IF ~result.object \/ ~(result.type = "Failure" \/ result.type = "Success")
    THEN Throw("InvalidQueryResultError")
    ELSE IF result.type = "Failure" THEN Reject(result.content)
    ELSE IF opts.includeAffectedRows
    THEN ResolveRows(result.content, AffectedRows(result))
    ELSE IF opts.includeCreated
    THEN ResolveCreated(result.content, Created(this, result))
    ELSE Resolve(result.content)

\* Mutant: the shape is chosen before the type is looked at, so a failure is
\* rejected with the pair.
SettleShapeBeforeFailure(this, opts, result) ==
    IF ~result.object \/ ~(result.type = "Failure" \/ result.type = "Success")
    THEN Throw("InvalidQueryResultError")
    ELSE LET settle == IF result.type = "Failure" THEN "rejected" ELSE "resolved" IN
         IF opts.includeCreated
         THEN [ResolveCreated(result.content, Created(this, result))
                  EXCEPT !.kind = settle]
         ELSE IF opts.includeAffectedRows
         THEN [ResolveRows(result.content, AffectedRows(result)) EXCEPT !.kind = settle]
         ELSE IF result.type = "Failure" THEN Reject(result.content)
         ELSE Resolve(result.content)

\* Mutant: the shifted entry is not validated; an entry that is no failure
\* is taken for a success.
SettleUnchecked(this, opts, result) ==
    IF result.type = "Failure" THEN Reject(result.content)
    ELSE IF opts.includeCreated
    THEN ResolveCreated(result.content, Created(this, result))
    ELSE IF opts.includeAffectedRows
    THEN ResolveRows(result.content, AffectedRows(result))
    ELSE Resolve(result.content)

\* Lines 133-160: the branch taken on the shifted entry.
Settle(this, opts, result) ==
    IF ~result.object \/ ~(result.type = "Failure" \/ result.type = "Success")
    THEN Throw("InvalidQueryResultError")
    ELSE IF result.type = "Failure" THEN Reject(result.content)
    ELSE IF opts.includeCreated
    THEN ResolveCreated(result.content, Created(this, result))
    ELSE IF opts.includeAffectedRows
    THEN ResolveRows(result.content, AffectedRows(result))
    ELSE Resolve(result.content)

\* Mutant: the call's stopPropagation is tested the wrong way round.
DelegatesInverted(this, opts) ==
    /\ opts.stopPropagation
    /\ ~options[this].stopPropagation
    /\ options[this].parent # Undefined

\* Mutant: the queue's own stopPropagation is not tested.
DelegatesIgnoringConfigured(this, opts) ==
    /\ ~opts.stopPropagation
    /\ options[this].parent # Undefined

\* Line 162.
Delegates(this, opts) ==
    /\ ~opts.stopPropagation
    /\ ~options[this].stopPropagation
    /\ options[this].parent # Undefined

\* Mutant: the configured function takes precedence over the call's.
FallbackFnConfiguredFirst(this, opts) ==
    IF options[this].fallbackFn # Undefined
    THEN options[this].fallbackFn
    ELSE opts.fallbackFn

\* Line 128.
FallbackFn(this, opts) ==
    IF opts.fallbackFn # Undefined THEN opts.fallbackFn ELSE options[this].fallbackFn

\* Mutant: the head is validated before it is shifted, so an invalid entry
\* stays at the head.
RECURSIVE queryValidateFirst(_, _, _)
queryValidateFirst(this, opts, res) ==
    IF Len(res[this]) # 0
    THEN LET result == Head(res[this])
             ret == Settle(this, opts, result)
         IN  [ret |-> ret,
              results |-> IF ret.kind = "thrown" THEN res
                          ELSE [res EXCEPT ![this] = Tail(@)],
              path |-> <<this>>, from |-> this, entry |-> result, calls |-> <<>>]
    ELSE IF Delegates(this, opts)
    THEN LET up == queryValidateFirst(options[this].parent, opts, res) IN
         [up EXCEPT !.path = <<this>> \o @]
    ELSE IF FallbackFn(this, opts) # Undefined
    THEN [ret |-> CallFallback(FallbackFn(this, opts)), results |-> res,
          path |-> <<this>>, from |-> Undefined, entry |-> NoEntry,
          calls |-> <<FallbackFn(this, opts)>>]
    ELSE [ret |-> Throw("EmptyQueryQueueError"), results |-> res,
          path |-> <<this>>, from |-> Undefined, entry |-> NoEntry, calls |-> <<>>]

\* Mutant: a queue with entries shifts its own head and its parent's too.
RECURSIVE queryDrainsAncestor(_, _, _)
queryDrainsAncestor(this, opts, res) ==
    IF Len(res[this]) # 0
    THEN LET result == Head(res[this])
             p == options[this].parent
         IN  [ret |-> Settle(this, opts, result),
              results |-> [x \in Queues |->
                              IF x = this \/ (x = p /\ res[x] # <<>>)
                              THEN Tail(res[x]) ELSE res[x]],
              path |-> <<this>>, from |-> this, entry |-> result, calls |-> <<>>]
    ELSE IF Delegates(this, opts)
    THEN LET up == queryDrainsAncestor(options[this].parent, opts, res) IN
         [up EXCEPT !.path = <<this>> \o @]
    ELSE IF FallbackFn(this, opts) # Undefined
    THEN [ret |-> CallFallback(FallbackFn(this, opts)), results |-> res,
          path |-> <<this>>, from |-> Undefined, entry |-> NoEntry,
          calls |-> <<FallbackFn(this, opts)>>]
    ELSE [ret |-> Throw("EmptyQueryQueueError"), results |-> res,
          path |-> <<this>>, from |-> Undefined, entry |-> NoEntry, calls |-> <<>>]

\* Mutant: a queue whose parent had nothing to give and no fallbackFn falls
\* back on its own configured fallbackFn.
RECURSIVE queryOwnFallback(_, _, _)
queryOwnFallback(this, opts, res) ==
    IF Len(res[this]) # 0
    THEN LET result == Head(res[this]) IN
         [ret |-> Settle(this, opts, result),
          results |-> [res EXCEPT ![this] = Tail(@)],
          path |-> <<this>>, from |-> this, entry |-> result, calls |-> <<>>]
    ELSE IF Delegates(this, opts)
    THEN LET up == queryOwnFallback(options[this].parent, opts, res) IN
         IF up.ret.error = "EmptyQueryQueueError" /\ FallbackFn(this, opts) # Undefined
         THEN [up EXCEPT !.path = <<this>> \o @,
                         !.ret = CallFallback(FallbackFn(this, opts)),
                         !.calls = <<FallbackFn(this, opts)>>]
         ELSE [up EXCEPT !.path = <<this>> \o @]
    ELSE IF FallbackFn(this, opts) # Undefined
    THEN [ret |-> CallFallback(FallbackFn(this, opts)), results |-> res,
          path |-> <<this>>, from |-> Undefined, entry |-> NoEntry,
          calls |-> <<FallbackFn(this, opts)>>]
    ELSE [ret |-> Throw("EmptyQueryQueueError"), results |-> res,
          path |-> <<this>>, from |-> Undefined, entry |-> NoEntry, calls |-> <<>>]

\* Mutant: the created flag is decided with the configuration of the queue
\* the query was called on, not of the queue that held the entry.
RECURSIVE queryAs(_, _, _, _)
queryAs(caller, this, opts, res) ==
    IF Len(res[this]) # 0
    THEN LET result == Head(res[this]) IN
         [ret |-> Settle(caller, opts, result),
          results |-> [res EXCEPT ![this] = Tail(@)],
          path |-> <<this>>, from |-> this, entry |-> result, calls |-> <<>>]
    ELSE IF Delegates(this, opts)
    THEN LET up == queryAs(caller, options[this].parent, opts, res) IN
         [up EXCEPT !.path = <<this>> \o @]
    ELSE IF FallbackFn(this, opts) # Undefined
    THEN [ret |-> CallFallback(FallbackFn(this, opts)), results |-> res,
          path |-> <<this>>, from |-> Undefined, entry |-> NoEntry,
          calls |-> <<FallbackFn(this, opts)>>]
    ELSE [ret |-> Throw("EmptyQueryQueueError"), results |-> res,
          path |-> <<this>>, from |-> Undefined, entry |-> NoEntry, calls |-> <<>>]

queryCallersDefault(this, opts, res) == queryAs(this, this, opts, res)

\* Mutant: the head is read and left in place.
RECURSIVE queryPeek(_, _, _)
queryPeek(this, opts, res) ==
    IF Len(res[this]) # 0
    THEN LET result == Head(res[this]) IN
         [ret |-> Settle(this, opts, result), results |-> res,
          path |-> <<this>>, from |-> this, entry |-> result, calls |-> <<>>]
    ELSE IF Delegates(this, opts)
    THEN LET up == queryPeek(options[this].parent, opts, res) IN
         [up EXCEPT !.path = <<this>> \o @]
    ELSE IF FallbackFn(this, opts) # Undefined
    THEN [ret |-> CallFallback(FallbackFn(this, opts)), results |-> res,
          path |-> <<this>>, from |-> Undefined, entry |-> NoEntry,
          calls |-> <<FallbackFn(this, opts)>>]
    ELSE [ret |-> Throw("EmptyQueryQueueError"), results |-> res,
          path |-> <<this>>, from |-> Undefined, entry |-> NoEntry, calls |-> <<>>]

RECURSIVE query(_, _, _)
query(this, opts, res) ==
    IF Len(res[this]) # 0
    THEN LET result == Head(res[this]) IN
         [ret |-> Settle(this, opts, result),
          results |-> [res EXCEPT ![this] = Tail(@)],
          path |-> <<this>>, from |-> this, entry |-> result, calls |-> <<>>]
    ELSE IF Delegates(this, opts)
    THEN LET up == query(options[this].parent, opts, res) IN
         [up EXCEPT !.path = <<this>> \o @]
    ELSE IF FallbackFn(this, opts) # Undefined
    THEN [ret |-> CallFallback(FallbackFn(this, opts)), results |-> res,
          path |-> <<this>>, from |-> Undefined, entry |-> NoEntry,
          calls |-> <<FallbackFn(this, opts)>>]
    ELSE [ret |-> Throw("EmptyQueryQueueError"), results |-> res,
          path |-> <<this>>, from |-> Undefined, entry |-> NoEntry, calls |-> <<>>]

(***************************************************************************)
(* The state after construction                                            *)
(***************************************************************************)
NoQueryOptions ==
    [fallbackFn |-> Undefined, includeCreated |-> FALSE,
     includeAffectedRows |-> FALSE, stopPropagation |-> FALSE]

NoLast ==
    [op |-> "new", q |-> "A", content |-> NoContent, meta |-> NoOptions,
     query |-> NoQueryOptions, propagateClear |-> FALSE, ret |-> NoRet,
     path |-> <<>>, from |-> Undefined, entry |-> NoEntry, calls |-> <<>>,
     emptied |-> {}]

\* new QueryInterface(options), for each queue
Constructed(parents, stops, defaults, fallbacks) ==
    /\ options = [q \in Queues |->
                    [parent |-> parents[q], stopPropagation |-> stops[q],
                     createdDefault |-> defaults[q], fallbackFn |-> fallbacks[q]]]
    /\ results = [q \in Queues |-> <<>>]
    /\ log = [q \in Queues |-> <<>>]
    /\ out = [q \in Queues |-> <<>>]
    /\ last = NoLast
    /\ handles = <<>>

Parents == {f \in [Queues -> Queues \cup {Undefined}] :
              \A q \in Queues : f[q] \in Later(q) \cup {Undefined}}

Fallbacks == {f \in [Queues -> {FnOf(q) : q \in Queues} \cup {Undefined}] :
                \A q \in Queues : f[q] \in {FnOf(q), Undefined}}

(***************************************************************************)
(* The calls                                                               *)
(***************************************************************************)
\* How a settled query is recorded in out, and a pushed entry in log.
Settlement(ret) == [kind |-> ret.kind, content |-> ret.content]
Pushed(type, content) == [type |-> type, content |-> content]

QueueResult(q, result, opts) ==
    /\ SumLen(log, Queues) < MaxQueued
    /\ results' = queueResult(q, result, opts, results)
    /\ log' = [log EXCEPT ![q] = Append(@, Pushed("Success", result))]
    /\ last' = [NoLast EXCEPT !.op = "queueResult", !.q = q, !.content = result,
                              !.meta = opts, !.ret = ReturnThis]
    /\ UNCHANGED <<options, out, handles>>

QueueFailure(q, error, opts) ==
    /\ SumLen(log, Queues) < MaxQueued
    /\ results' = queueFailure(q, error, opts, results)
    /\ log' = [log EXCEPT ![q] = Append(@, Pushed("Failure", ConvertError(error, opts)))]
    /\ last' = [NoLast EXCEPT !.op = "queueFailure", !.q = q, !.content = error,
                              !.meta = opts, !.ret = ReturnThis]
    /\ UNCHANGED <<options, out, handles>>

\* The handles that were not shifted from one of the queues cleared.
RECURSIVE Since(_, _)
Since(hs, cleared) ==
    IF hs = <<>> THEN <<>>
    ELSE IF Head(hs).from \in cleared THEN Since(Tail(hs), cleared)
    ELSE <<Head(hs)>> \o Since(Tail(hs), cleared)

ClearQueue(q, propagateClear) ==
    LET r == clearQueue(q, [propagateClear |-> propagateClear], results)
        visited == {r.path[i] : i \in 1..Len(r.path)}
    IN  /\ results' = r.results
        /\ log' = [p \in Queues |-> IF p \in visited THEN <<>> ELSE log[p]]
        /\ out' = [p \in Queues |-> IF p \in visited THEN <<>> ELSE out[p]]
        /\ last' = [NoLast EXCEPT !.op = "clearQueue", !.q = q,
                                  !.propagateClear = propagateClear,
                                  !.path = r.path, !.ret = ReturnThis,
                                  !.emptied = {p \in Queues : results[p] # <<>>
                                                              /\ r.results[p] = <<>>}]
        /\ handles' = Since(handles, visited)
        /\ UNCHANGED options

\* A call of $query by a caller that is not told apart from others.
Query(q, opts) ==
    LET r == query(q, opts, results) IN
    /\ results' = r.results
    /\ out' = IF r.from # Undefined
              THEN [out EXCEPT ![r.from] = Append(@, Settlement(r.ret))]
              ELSE out
    /\ last' = [NoLast EXCEPT !.op = "query", !.q = q, !.query = opts, !.ret = r.ret,
                              !.path = r.path, !.from = r.from, !.entry = r.entry,
                              !.calls = r.calls]
    /\ UNCHANGED <<options, log, handles>>

\* A call of $query by one of several flows of control.  The call runs to
\* its return without yielding (lines 125-169 hold no await and no callback),
\* so it is one step; the promise it returns is already settled and is kept
\* by the flow as a handle.
QueryBy(flow, q, opts) ==
    LET r == query(q, opts, results) IN
    /\ results' = r.results
    /\ out' = IF r.from # Undefined
              THEN [out EXCEPT ![r.from] = Append(@, Settlement(r.ret))]
              ELSE out
    /\ last' = [NoLast EXCEPT !.op = "query", !.q = q, !.query = opts, !.ret = r.ret,
                              !.path = r.path, !.from = r.from, !.entry = r.entry,
                              !.calls = r.calls]
    /\ handles' = IF r.ret.kind \in {"resolved", "rejected"}
                  THEN Append(handles, [flow |-> flow, from |-> r.from,
                                        settlement |-> Settlement(r.ret), seen |-> FALSE])
                  ELSE handles
    /\ UNCHANGED <<options, log>>

\* A flow observes one of its handles (.then / await): it sees the settlement
\* the promise was given when $query returned.  Handles are observed in any
\* order.
Observe(i) ==
    /\ i \in 1..Len(handles)
    /\ ~handles[i].seen
    /\ handles' = [handles EXCEPT ![i].seen = TRUE]
    /\ last' = [NoLast EXCEPT !.op = "observe"]
    /\ UNCHANGED <<options, results, log, out>>

\* Code outside this file pushes an entry on this._results directly.
Corrupt(q, entry) ==
    /\ SumLen(log, Queues) < MaxQueued
    /\ results' = [results EXCEPT ![q] = Append(@, entry)]
    /\ log' = [log EXCEPT ![q] = Append(@, Pushed(entry.type, entry.content))]
    /\ last' = [NoLast EXCEPT !.op = "corrupt", !.q = q, !.content = entry.content]
    /\ UNCHANGED <<options, out, handles>>

\* One call, with arguments drawn from the given sets.
NextOver(resultArgs, failureArgs, queryArgs) ==
    \E q \in Queues :
        \/ \E a \in resultArgs : QueueResult(q, a[1], a[2])
        \/ \E a \in failureArgs : QueueFailure(q, a[1], a[2])
        \/ \E propagateClear \in BOOLEAN : ClearQueue(q, propagateClear)
        \/ \E opts \in queryArgs : Query(q, opts)

None == [q \in Queues |-> Undefined]
Chain == [q \in Queues |-> IF Index(q) < Len(Order) THEN Order[Index(q) + 1] ELSE Undefined]

(***************************************************************************)
(* Spec: the chain A -> B -> C with every stopPropagation and fallbackFn   *)
(* configuration; one success and one failure payload.                     *)
(***************************************************************************)
ChainResults == {<<Plain("a"), NoOptions>>}
ChainFailures == {<<Plain("b"), NoOptions>>}
ChainQueries ==
    {[NoQueryOptions EXCEPT !.fallbackFn = f, !.stopPropagation = s] :
        f \in {Undefined, CallFn}, s \in BOOLEAN}

\* The last queue of Order can have no parent, so its stopPropagation is never
\* read with a parent present; it is left false.
Init ==
    \E stops \in [Queues -> BOOLEAN], fallbacks \in Fallbacks :
        /\ ~stops[Order[Len(Order)]]
        /\ Constructed(Chain, stops, None, fallbacks)

Next == NextOver(ChainResults, ChainFailures, ChainQueries)

Spec == Init /\ [][Next]_vars

(***************************************************************************)
(* SpecTree: the three queues in every acyclic arrangement (chains,        *)
(* siblings, unrelated queues), with every stopPropagation configuration.  *)
(***************************************************************************)
InitTree ==
    \E parents \in Parents, stops \in [Queues -> BOOLEAN] :
        /\ ~stops[Order[Len(Order)]]
        /\ Constructed(parents, stops, None, None)

SpecTree == InitTree /\ [][Next]_vars

(***************************************************************************)
(* SpecEntries: unrelated queues; successes and failures of every kind,    *)
(* with and without the convertNonErrors option.                           *)
(***************************************************************************)
EntryResults == {<<Plain("a"), NoOptions>>, <<Plain("b"), NoOptions>>}
EntryFailures ==
    {<<c, o>> : c \in {Plain("boom"), ErrorObj("e")},
                o \in {NoOptions} \cup
                      {[EmptyOptions EXCEPT !.convertNonErrors = t] : t \in Tri}}
EntryQueries == {NoQueryOptions}

InitEntries == Constructed(None, [q \in Queues |-> FALSE], None, None)

NextEntries == NextOver(EntryResults, EntryFailures, EntryQueries)

SpecEntries == InitEntries /\ [][NextEntries]_vars

(***************************************************************************)
(* SpecCreated: the chain A -> B -> C with every createdDefault            *)
(* configuration; successes with every wasCreated, queries with and        *)
(* without includeCreated.                                                 *)
(***************************************************************************)
CreatedResults ==
    {<<Plain("v"), o>> : o \in {NoOptions} \cup
                               {[EmptyOptions EXCEPT !.wasCreated = t] :
                                   t \in {"true", "false"}}}
CreatedFailures == {<<Plain("b"), NoOptions>>}
CreatedQueries == {[NoQueryOptions EXCEPT !.includeCreated = c] : c \in BOOLEAN}

InitCreated ==
    \E defaults \in [Queues -> Tri] :
        Constructed(Chain, [q \in Queues |-> FALSE], defaults, None)

NextCreated == NextOver(CreatedResults, CreatedFailures, CreatedQueries)

SpecCreated == InitCreated /\ [][NextCreated]_vars

(***************************************************************************)
(* SpecRows: unrelated queues; successes with every kind of affectedRows,  *)
(* failures, and queries with every combination of includeCreated and      *)
(* includeAffectedRows.                                                    *)
(***************************************************************************)
RowsResults ==
    {<<Plain("v"), o>> : o \in {NoOptions} \cup
                               {[EmptyOptions EXCEPT !.affectedRows = r] :
                                   r \in {ArrayRows, OtherRows}}}
RowsFailures == {<<Plain("boom"), NoOptions>>, <<ErrorObj("e"), NoOptions>>}
RowsQueries ==
    {[NoQueryOptions EXCEPT !.includeCreated = c, !.includeAffectedRows = r] :
        c \in BOOLEAN, r \in BOOLEAN}

NextRows == NextOver(RowsResults, RowsFailures, RowsQueries)

SpecRows == InitEntries /\ [][NextRows]_vars

(***************************************************************************)
(* SpecCorrupt: the chain A -> B -> C with every fallbackFn configuration, *)
(* where entries that $queueResult and $queueFailure cannot make are also  *)
(* pushed: an object whose type is neither 'Success' nor 'Failure', and a  *)
(* value that is no object (a string, say, whose type is undefined).       *)
(* null is left out: typeof null is 'object' and reading null.type throws  *)
(* a TypeError before line 134 is reached.                                 *)
(***************************************************************************)
CorruptEntries ==
    {[content |-> Plain("x"), options |-> EmptyOptions, type |-> "Other",
      object |-> TRUE],
     [content |-> NoContent, options |-> EmptyOptions, type |-> Undefined,
      object |-> FALSE]}
CorruptQueries ==
    {[NoQueryOptions EXCEPT !.fallbackFn = f] : f \in {Undefined, CallFn}}

InitCorrupt ==
    \E fallbacks \in Fallbacks :
        Constructed(Chain, [q \in Queues |-> FALSE], None, fallbacks)

NextCorrupt ==
    \/ NextOver(ChainResults, ChainFailures, CorruptQueries)
    \/ \E q \in Queues, entry \in CorruptEntries : Corrupt(q, entry)

SpecCorrupt == InitCorrupt /\ [][NextCorrupt]_vars

(***************************************************************************)
(* SpecFlows: the chain A -> B -> C; two flows of control push, clear and  *)
(* query in any interleaving and observe the promises they hold in any     *)
(* order.                                                                  *)
(***************************************************************************)
Flows == {"f1", "f2"}

InitFlows == Constructed(Chain, [q \in Queues |-> FALSE], None, None)

NextFlows ==
    \/ \E q \in Queues :
        \/ \E a \in ChainResults : QueueResult(q, a[1], a[2])
        \/ \E a \in ChainFailures : QueueFailure(q, a[1], a[2])
        \/ \E propagateClear \in BOOLEAN : ClearQueue(q, propagateClear)
        \/ \E flow \in Flows : QueryBy(flow, q, NoQueryOptions)
    \/ \E i \in DOMAIN handles : Observe(i)

SpecFlows == InitFlows /\ [][NextFlows]_vars

(***************************************************************************)
(* SpecWalk: $query and $clearQueue followed call by call.  A call on a    *)
(* queue is a frame; last.path lists the frames entered so far and         *)
(* last.ret.kind = "running" while the innermost one has not returned.     *)
(* The constructor keeps the caller's options object (line 40), so parent  *)
(* can be assigned after construction and the parents can form a cycle:    *)
(* the fixtures are the chain A -> B -> C, the ring A -> B -> C -> A and   *)
(* the lasso A -> B -> C -> B.  Nothing else runs while a call is running. *)
(***************************************************************************)
Running == [NoRet EXCEPT !.kind = "running"]
Idle == last.ret.kind # "running"

\* this.options.parent, the receiver of the nested call (lines 107, 163)
CalleeSelf(this) == this
Callee(this) == options[this].parent

\* $query is called: line 125.
StartQuery(q, opts) ==
    /\ Idle
    /\ last' = [NoLast EXCEPT !.op = "query", !.q = q, !.query = opts,
                              !.path = <<q>>, !.ret = Running]
    /\ UNCHANGED <<options, results, log, out, handles>>

\* The body of the innermost $query frame: lines 128-168.
StepQuery ==
    /\ last.op = "query"
    /\ ~Idle
    /\ LET this == Last(last.path)
           opts == last.query
       IN  IF Len(results[this]) # 0
           THEN LET result == Head(results[this])
                    ret == Settle(this, opts, result)
                IN  /\ results' = [results EXCEPT ![this] = Tail(@)]
                    /\ out' = [out EXCEPT ![this] = Append(@, Settlement(ret))]
                    /\ last' = [last EXCEPT !.ret = ret, !.from = this,
                                            !.entry = result]
           ELSE IF Delegates(this, opts)
           THEN /\ Len(last.path) < MaxDepth
                /\ last' = [last EXCEPT !.path = Append(@, Callee(this))]
                /\ UNCHANGED <<results, out>>
           ELSE IF FallbackFn(this, opts) # Undefined
           THEN /\ last' = [last EXCEPT !.ret = CallFallback(FallbackFn(this, opts)),
                                        !.calls = <<FallbackFn(this, opts)>>]
                /\ UNCHANGED <<results, out>>
           ELSE /\ last' = [last EXCEPT !.ret = Throw("EmptyQueryQueueError")]
                /\ UNCHANGED <<results, out>>
    /\ UNCHANGED <<options, log, handles>>

\* $clearQueue is called: line 100.
StartClear(q, propagateClear) ==
    /\ Idle
    /\ last' = [NoLast EXCEPT !.op = "clearQueue", !.q = q,
                              !.propagateClear = propagateClear,
                              !.path = <<q>>, !.ret = Running]
    /\ UNCHANGED <<options, results, log, out, handles>>

\* The body of the innermost $clearQueue frame: lines 101-110.  When the
\* innermost frame makes no nested call every frame returns.
StepClear ==
    /\ last.op = "clearQueue"
    /\ ~Idle
    /\ LET this == Last(last.path) IN
       /\ results' = [results EXCEPT ![this] = <<>>]
       /\ log' = [log EXCEPT ![this] = <<>>]
       /\ out' = [out EXCEPT ![this] = <<>>]
       /\ handles' = Since(handles, {this})
       /\ IF last.propagateClear /\ options[this].parent # Undefined
          THEN /\ Len(last.path) < MaxDepth
               /\ last' = [last EXCEPT !.path = Append(@, Callee(this))]
          ELSE last' = [last EXCEPT !.ret = ReturnThis]
    /\ UNCHANGED options

Ring == [q \in Queues |-> Order[(Index(q) % Len(Order)) + 1]]
Lasso == [Chain EXCEPT ![Order[Len(Order)]] = Order[Len(Order) - 1]]

WalkEntries ==
    {[content |-> Plain("x"), options |-> EmptyOptions, type |-> "Other",
      object |-> TRUE]}
WalkQueries ==
    {[NoQueryOptions EXCEPT !.fallbackFn = f] : f \in {Undefined, CallFn}}

InitWalk ==
    \E parents \in {Chain, Ring, Lasso}, stopB \in BOOLEAN, fnC \in BOOLEAN :
        Constructed(parents,
                    [q \in Queues |-> q = "B" /\ stopB],
                    None,
                    [q \in Queues |-> IF q = "C" /\ fnC THEN FnOf(q) ELSE Undefined])

NextWalk ==
    \/ /\ Idle
       /\ \E q \in Queues :
            \/ \E a \in ChainResults : QueueResult(q, a[1], a[2])
            \/ \E a \in ChainFailures : QueueFailure(q, a[1], a[2])
            \/ \E entry \in WalkEntries : Corrupt(q, entry)
    \/ \E q \in Queues, opts \in WalkQueries : StartQuery(q, opts)
    \/ StepQuery
    \/ \E q \in Queues, propagateClear \in BOOLEAN : StartClear(q, propagateClear)
    \/ StepClear

\* A call that has been entered runs on: the engine executes the body of the
\* innermost frame.
SpecWalk ==
    InitWalk /\ [][NextWalk]_vars /\ WF_vars(StepQuery) /\ WF_vars(StepClear)

(***************************************************************************)
(* Properties.  The action properties read the state before the call in    *)
(* the unprimed variables and the state after it in the primed ones.       *)
(***************************************************************************)
\* The queue q followed by its parent, its grandparent, ...
RECURSIVE Ancestry(_)
Ancestry(q) ==
    IF options[q].parent = Undefined THEN <<q>>
    ELSE <<q>> \o Ancestry(options[q].parent)

Range(s) == {s[i] : i \in 1..Len(s)}

\* How a pushed entry has to settle when it is shifted.
Expected(e) ==
    [kind |-> IF e.type = "Success" THEN "resolved" ELSE "rejected",
     content |-> e.content]

C2_Delegation ==
    [][last'.op = "query" =>
        LET q == last'.q
            opts == last'.query
            path == Ancestry(q)
        IN  (results[q] = <<>> /\ options[q].parent # Undefined
             /\ ~opts.stopPropagation /\ ~options[q].stopPropagation) =>
            /\ last'.ret = query(options[q].parent, opts, results).ret
            /\ results' = query(options[q].parent, opts, results).results
            /\ \A n \in 2..Len(path) :
                 (/\ results[path[n]] # <<>>
                  /\ \A j \in 1..(n - 1) :
                        results[path[j]] = <<>> /\ ~options[path[j]].stopPropagation)
                 => /\ Settlement(last'.ret) = Expected(Head(results[path[n]]))
                    /\ results' = [results EXCEPT ![path[n]] = Tail(@)]
    ]_vars

C2_Witness ==
    /\ last.op = "query"
    /\ last.q = "A"
    /\ last.path = <<"A", "B", "C">>
    /\ last.from = "C"
    /\ last.ret.kind = "resolved"
    /\ last.ret.content = Plain("a")
    /\ Len(results["C"]) = 1

\* The first queue of path at which a query with opts does not delegate
\* whatever the queues hold: 1 if the call has stopPropagation, else the first
\* queue configured with stopPropagation; 0 if there is none.
StopIndex(path, opts) ==
    IF opts.stopPropagation THEN 1
    ELSE IF \E j \in 1..Len(path) : options[path[j]].stopPropagation
    THEN CHOOSE j \in 1..Len(path) :
            /\ options[path[j]].stopPropagation
            /\ \A i \in 1..(j - 1) : ~options[path[i]].stopPropagation
    ELSE 0

\* C3: propagation suppression.  A query visits and changes no queue above
\* the point of suppression (the called queue if the call has
\* stopPropagation, else the first queue of the chain configured with it).
\* When the queues up to that point are empty and neither the call nor the
\* queue at that point has a fallbackFn, the query throws
\* EmptyQueryQueueError and every queue keeps its entries.
C3_Suppression ==
    [][last'.op = "query" =>
        LET opts == last'.query
            path == Ancestry(last'.q)
            s == StopIndex(path, opts)
        IN  s > 0 =>
            /\ \A k \in (s + 1)..Len(path) :
                 /\ results'[path[k]] = results[path[k]]
                 /\ path[k] \notin Range(last'.path)
            /\ (/\ \A j \in 1..s : results[path[j]] = <<>>
                /\ opts.fallbackFn = Undefined
                /\ options[path[s]].fallbackFn = Undefined)
               => /\ last'.ret.kind = "thrown"
                  /\ last'.ret.error = "EmptyQueryQueueError"
                  /\ results' = results
    ]_vars

C3_Witness ==
    /\ last.op = "query"
    /\ last.q = "A"
    /\ ~last.query.stopPropagation
    /\ ~options["A"].stopPropagation
    /\ options["B"].stopPropagation
    /\ last.path = <<"A", "B">>
    /\ last.ret.kind = "thrown"
    /\ last.ret.error = "EmptyQueryQueueError"
    /\ results["C"] # <<>>

\* C4: exhaustion with nothing configured.  A query on an empty queue that
\* has no parent, with no fallbackFn in the call or configured, throws
\* EmptyQueryQueueError (it returns no promise, resolved or rejected) and
\* every queue keeps its entries.
C4_EmptyThrows ==
    [][last'.op = "query" =>
        LET q == last'.q IN
        (/\ results[q] = <<>>
         /\ options[q].parent = Undefined
         /\ last'.query.fallbackFn = Undefined
         /\ options[q].fallbackFn = Undefined)
        => /\ last'.ret.kind = "thrown"
           /\ last'.ret.error = "EmptyQueryQueueError"
           /\ last'.ret.kind \notin {"resolved", "rejected", "returned"}
           /\ results' = results
    ]_vars

C4_Witness ==
    /\ last.op = "query"
    /\ last.q = "C"
    /\ last.path = <<"C">>
    /\ options["C"].parent = Undefined
    /\ options["C"].fallbackFn = Undefined
    /\ last.query.fallbackFn = Undefined
    /\ last.ret.kind = "thrown"
    /\ last.ret.error = "EmptyQueryQueueError"
    /\ results["C"] = <<>>
    /\ results["A"] # <<>>

\* The queues a query on q with opts can reach by delegation that is not
\* suppressed: q and its ancestors up to the point of suppression.
Reached(q, opts) ==
    LET path == Ancestry(q)
        s == StopIndex(path, opts)
    IN  {path[i] : i \in 1..(IF s = 0 THEN Len(path) ELSE s)}

\* C5: EmptyQueryQueueError only when nothing is producible.  Whenever a
\* query throws EmptyQueryQueueError, the called queue and every queue
\* reachable from it through non-suppressed delegation is empty, and no
\* fallbackFn is available: not in the call, not configured on the called
\* queue, not configured on any queue the call was delegated to.
C5_EmptyOnlyWhenNothingProducible ==
    [][(last'.op = "query" /\ last'.ret.kind = "thrown"
        /\ last'.ret.error = "EmptyQueryQueueError") =>
        /\ \A p \in Reached(last'.q, last'.query) : results[p] = <<>>
        /\ last'.query.fallbackFn = Undefined
        /\ options[last'.q].fallbackFn = Undefined
        /\ \A p \in Range(last'.path) : options[p].fallbackFn = Undefined
    ]_vars

\* C6: exhaustion with fallback.  A query on an empty queue that does not
\* delegate (no parent, or stopPropagation in the call or configured), with a
\* fallbackFn in the call or configured on the queue, calls one function
\* once, the call's if given and else the configured one, and returns what
\* it returns; no queue changes and nothing is thrown.  A query that shifts
\* an entry calls no fallbackFn.
C6_Fallback ==
    [][last'.op = "query" =>
        LET q == last'.q
            opts == last'.query
            fb == IF opts.fallbackFn # Undefined THEN opts.fallbackFn
                  ELSE options[q].fallbackFn
        IN  /\ (/\ results[q] = <<>>
                /\ \/ options[q].parent = Undefined
                   \/ opts.stopPropagation
                   \/ options[q].stopPropagation
                /\ fb # Undefined)
               => /\ last'.calls = <<fb>>
                  /\ last'.ret.kind = "returned"
                  /\ last'.ret.fn = fb
                  /\ last'.ret.error = "none"
                  /\ results' = results
            /\ results' # results => last'.calls = <<>>
    ]_vars

C6_Witness ==
    /\ last.op = "query"
    /\ last.q = "A"
    /\ last.query.stopPropagation
    /\ last.query.fallbackFn = CallFn
    /\ options["A"].fallbackFn = FnOf("A")
    /\ last.calls = <<CallFn>>
    /\ last.ret.kind = "returned"
    /\ last.ret.fn = CallFn
    /\ results["A"] = <<>>
    /\ results["B"] # <<>>

\* C7: cascading clear.  clearQueue empties the called queue.  With
\* propagateClear it empties every ancestor of the called queue, whatever
\* their stopPropagation; without it every ancestor keeps its entries.  A
\* queue that is neither the called queue nor an ancestor of it keeps its
\* entries.
C7_CascadingClear ==
    [][last'.op = "clearQueue" =>
        LET q == last'.q
            ancestors == Range(Ancestry(q)) \ {q}
        IN  /\ results'[q] = <<>>
            /\ \A p \in ancestors :
                 IF last'.propagateClear THEN results'[p] = <<>>
                 ELSE results'[p] = results[p]
            /\ \A p \in Queues \ (ancestors \cup {q}) : results'[p] = results[p]
    ]_vars

C7_Witness ==
    /\ last.op = "clearQueue"
    /\ last.propagateClear
    /\ last.q = "A"
    /\ options["A"].parent = "B"
    /\ options["B"].parent = "C"
    /\ options["B"].stopPropagation
    /\ last.emptied = {"A", "C"}
    /\ \A q \in Queues : results[q] = <<>>

\* C8: failure normalization at enqueue.  queueFailure stores a BaseError
\* made from the content exactly when convertNonErrors is not false and the
\* content is not an Error; otherwise it stores the content itself.  A query
\* that shifts a failure rejects with exactly the stored content.
C8_FailureNormalization ==
    /\ last.op = "queueFailure" =>
        LET stored == Last(results[last.q]) IN
        /\ stored.type = "Failure"
        /\ stored.content =
              IF last.meta.convertNonErrors # "false"
                 /\ last.content.cls \notin {"Error", "BaseError"}
              THEN [cls |-> "BaseError", v |-> last.content.v]
              ELSE last.content
    /\ (last.op = "query" /\ last.entry.type = "Failure") =>
        /\ last.ret.kind = "rejected"
        /\ last.ret.content = last.entry.content

C8_Witness ==
    /\ last.op = "query"
    /\ last.entry.type = "Failure"
    /\ last.entry.options.convertNonErrors = Undefined
    /\ log[last.q] = <<[type |-> "Failure",
                        content |-> [cls |-> "BaseError", v |-> "boom"]]>>
    /\ last.ret.kind = "rejected"
    /\ last.ret.content = [cls |-> "BaseError", v |-> "boom"]

\* C9 as claimed: a content that is not an Error is stored wrapped in a
\* BaseError even with convertNonErrors false, so every query that shifts a
\* failure rejects with an Error.
C9_AlwaysErrorTyped ==
    /\ (last.op = "queueFailure" /\ last.meta.convertNonErrors = "false"
        /\ last.content.cls = "plain") =>
        Last(results[last.q]).content = [cls |-> "BaseError", v |-> last.content.v]
    /\ (last.op = "query" /\ last.entry.type = "Failure") =>
        last.ret.content.cls \in {"Error", "BaseError"}

\* C9 as amended: with convertNonErrors false a content that is not an Error
\* is stored as it is, and the later query rejects with it; a query that
\* shifts a failure rejects with an Error unless the failure was queued with
\* convertNonErrors false.
C9_FlagLeavesContent ==
    /\ (last.op = "queueFailure" /\ last.meta.convertNonErrors = "false") =>
        Last(results[last.q]).content = last.content
    /\ (last.op = "query" /\ last.entry.type = "Failure") =>
        /\ last.ret.kind = "rejected"
        /\ \/ last.ret.content.cls \in {"Error", "BaseError"}
           \/ /\ last.entry.options.convertNonErrors = "false"
              /\ last.ret.content = last.entry.content

C9_Witness ==
    /\ last.op = "query"
    /\ last.entry.type = "Failure"
    /\ last.entry.options.convertNonErrors = "false"
    /\ last.ret.kind = "rejected"
    /\ last.ret.content = Plain("boom")

\* C10: created-flag negotiation.  A query with includeCreated that shifts a
\* success resolves to the pair of its content and a flag: the entry's
\* wasCreated if set, else the createdDefault of the queue it was shifted
\* from if set, else true.
C10_CreatedFlag ==
    (last.op = "query" /\ last.query.includeCreated /\ last.entry.type = "Success") =>
        /\ last.ret.kind = "resolved"
        /\ last.ret.shape = "created"
        /\ last.ret.content = last.entry.content
        /\ last.ret.created =
              IF last.entry.options.wasCreated # Undefined
              THEN last.entry.options.wasCreated = "true"
              ELSE IF options[last.from].createdDefault # Undefined
              THEN options[last.from].createdDefault = "true"
              ELSE TRUE

C10_Witness ==
    /\ last.op = "query"
    /\ last.q = "A"
    /\ last.from = "A"
    /\ last.query.includeCreated
    /\ last.entry.type = "Success"
    /\ last.entry.options.wasCreated = "false"
    /\ options["A"].createdDefault = "true"
    /\ last.ret.shape = "created"
    /\ last.ret.content = Plain("v")
    /\ last.ret.created = FALSE
\* C11: affected-rows negotiation and shape priority.  A query that shifts a
\* success resolves, if includeCreated is asked for, to the pair of content
\* and created flag, also when includeAffectedRows is asked for too; else, if
\* includeAffectedRows is asked for, to the pair of content and the entry's
\* affectedRows when that is an Array and the empty Array otherwise; else to
\* the content alone.
C11_ShapePriority ==
    (last.op = "query" /\ last.entry.type = "Success") =>
        /\ last.ret.kind = "resolved"
        /\ last.ret.content = last.entry.content
        /\ IF last.query.includeCreated
           THEN /\ last.ret.shape = "created"
                /\ last.ret.rows = <<>>
           ELSE IF last.query.includeAffectedRows
           THEN /\ last.ret.shape = "affectedRows"
                /\ last.ret.rows =
                      IF last.entry.options.affectedRows.kind = "array"
                      THEN last.entry.options.affectedRows.items
                      ELSE <<>>
           ELSE /\ last.ret.shape = "bare"
                /\ last.ret.rows = <<>>

C11_Witness ==
    /\ last.op = "query"
    /\ last.entry.type = "Success"
    /\ last.entry.options.affectedRows = ArrayRows
    /\ last.query.includeCreated
    /\ last.query.includeAffectedRows
    /\ last.ret.shape = "created"
    /\ last.ret.created = TRUE
    /\ last.ret.content = Plain("v")

\* C12: scripted failures use the promise only.  A query that shifts a
\* failure returns a rejected promise carrying exactly the stored content,
\* whatever includeCreated and includeAffectedRows are: no pair is built and
\* nothing is thrown.  A query that shifts a success never returns a rejected
\* promise.
C12_FailureRejects ==
    /\ (last.op = "query" /\ last.entry.type = "Failure") =>
        /\ last.ret.kind = "rejected"
        /\ last.ret.content = last.entry.content
        /\ last.ret.shape = "none"
        /\ last.ret.rows = <<>>
        /\ last.ret.error = "none"
    /\ (last.op = "query" /\ last.entry.type = "Success") =>
        last.ret.kind # "rejected"

C12_Witness ==
    /\ last.op = "query"
    /\ last.entry.type = "Failure"
    /\ last.query.includeCreated
    /\ last.query.includeAffectedRows
    /\ last.ret.kind = "rejected"
    /\ last.ret.shape = "none"
    /\ last.ret.content = [cls |-> "BaseError", v |-> "boom"]
\* An entry that line 133 rejects.
Invalid(e) == ~e.object \/ e.type \notin {"Success", "Failure"}

C17_InvalidIsRemoved ==
    [][/\ (last'.op = "query" /\ last'.ret.error = "InvalidQueryResultError") =>
            LET p == last'.from IN
            /\ results[p] # <<>>
            /\ Invalid(Head(results[p]))
            /\ results' = [results EXCEPT ![p] = Tail(@)]
            /\ Len(results'[p]) = Len(results[p]) - 1
       /\ (/\ last.op = "query" /\ last.ret.error = "InvalidQueryResultError"
           /\ last'.op = "query" /\ last'.q = last.from) =>
            LET p == last.from
                k == Len(out[p])
            IN  IF Len(log[p]) > k
                THEN /\ last'.from = p
                     /\ Pushed(last'.entry.type, last'.entry.content) = log[p][k + 1]
                ELSE last'.from # p
    ]_vars

C17_Witness ==
    /\ last.op = "query"
    /\ last.q = "A"
    /\ last.from = "A"
    /\ last.ret.error = "InvalidQueryResultError"
    /\ Len(log["A"]) = 2
    /\ Len(out["A"]) = 1
    /\ Len(results["A"]) = 1
    /\ results["A"][1].type = "Success"
\* C14: side effects of a query.  A query shifts at most one entry over the
\* whole chain: every queue keeps its entries or loses its head, and at most
\* one queue loses it.  Called on a queue with entries, it shifts that queue's
\* head and visits no other queue, whatever stopPropagation and fallbackFn
\* are; called on an empty queue, it leaves that queue empty whether it
\* delegates, calls a fallbackFn or throws EmptyQueryQueueError.
C14_QuerySideEffects ==
    [][last'.op = "query" =>
        LET q == last'.q IN
        /\ \A x \in Queues : results'[x] = results[x]
                \/ (results[x] # <<>> /\ results'[x] = Tail(results[x]))
        /\ \A x, y \in Queues :
                (results'[x] # results[x] /\ results'[y] # results[y]) => x = y
        /\ results[q] # <<>> =>
                /\ results' = [results EXCEPT ![q] = Tail(@)]
                /\ last'.entry = Head(results[q])
                /\ last'.path = <<q>>
                /\ last'.from = q
                /\ last'.calls = <<>>
        /\ results[q] = <<>> =>
                /\ results'[q] = <<>>
                /\ last'.from # q
    ]_vars

\* A query on a queue with entries whose parent has entries too, with a
\* fallbackFn configured and one given in the call.
C14_Witness ==
    /\ last.op = "query"
    /\ last.q = "A"
    /\ last.from = "A"
    /\ last.path = <<"A">>
    /\ last.query.fallbackFn = CallFn
    /\ options["A"].fallbackFn = FnOf("A")
    /\ results["A"] = <<>>
    /\ Len(results["B"]) = 1
    /\ Len(log["A"]) = 1

PendingIsLogSuffix ==
    \A q \in Queues :
        /\ Len(out[q]) <= Len(log[q])
        /\ Len(results[q]) = Len(log[q]) - Len(out[q])
        /\ \A i \in 1..Len(results[q]) :
              Pushed(results[q][i].type, results[q][i].content)
                  = log[q][Len(out[q]) + i]

\* A push returns the queue it was called on, appends one entry at the tail
\* of that queue and leaves every other queue as it was.
EnqueueFrame ==
    last'.op \in {"queueResult", "queueFailure"} =>
        /\ last'.ret = ReturnThis
        /\ Len(results'[last'.q]) = Len(results[last'.q]) + 1
        /\ SubSeq(results'[last'.q], 1, Len(results[last'.q])) = results[last'.q]
        /\ Last(results'[last'.q]).type =
              (IF last'.op = "queueResult" THEN "Success" ELSE "Failure")
        /\ \A x \in Queues \ {last'.q} : results'[x] = results[x]

\* C16: queue-content invariant.  After any sequence of $queueResult,
\* $queueFailure, $query and $clearQueue calls on queues in any acyclic
\* arrangement, every queue holds the entries pushed on it since its last
\* clear, in insertion order, less a prefix as long as the number of queries
\* that shifted from it since then.  A push always returns the called queue,
\* appends exactly one entry at the tail of that queue and changes no other
\* queue, the parent included.
C16_QueueContent == []PendingIsLogSuffix /\ [][EnqueueFrame]_vars

\* A second push on a child whose first entry has been shifted.
C16_Witness ==
    /\ last.op = "queueResult"
    /\ last.q = "A"
    /\ options["A"].parent = "B"
    /\ Len(log["A"]) = 2
    /\ Len(out["A"]) = 1
    /\ Len(results["A"]) = 1
    /\ results["B"] = <<>>

\* C19: created flag under delegation.  When a query with includeCreated on
\* an empty queue is delegated and an ancestor gives a success that has no
\* wasCreated, the flag is the ancestor's createdDefault if it has one and
\* true if it has none, whatever the createdDefault of the called queue and
\* of the queues passed on the way.
C19_CreatedUnderDelegation ==
    (/\ last.op = "query"
     /\ last.query.includeCreated
     /\ last.from # Undefined
     /\ last.from # last.q
     /\ last.entry.type = "Success"
     /\ last.entry.options.wasCreated = Undefined) =>
        /\ results[last.q] = <<>>
        /\ last.from \in Range(Ancestry(last.q))
        /\ last.ret.shape = "created"
        /\ last.ret.created = (options[last.from].createdDefault # "false")

C19_Witness ==
    /\ last.op = "query"
    /\ last.q = "A"
    /\ last.from = "C"
    /\ last.query.includeCreated
    /\ last.entry.type = "Success"
    /\ last.entry.options.wasCreated = Undefined
    /\ options["A"].createdDefault = "true"
    /\ options["B"].createdDefault = "true"
    /\ options["C"].createdDefault = "false"
    /\ last.ret.created = FALSE
\* The handles shifted from queue p, in the order of the calls.
RECURSIVE HandlesFrom(_, _)
HandlesFrom(hs, p) ==
    IF hs = <<>> THEN <<>>
    ELSE IF Head(hs).from = p THEN <<Head(hs)>> \o HandlesFrom(Tail(hs), p)
    ELSE HandlesFrom(Tail(hs), p)

\* C15: atomic shift-and-decide under interleaved callers.  When several
\* flows push, clear and query on the same chain in any interleaving, every
\* entry pushed on a queue since its last clear is given to exactly one query
\* call or is still queued: the i-th handle shifted from a queue, in the
\* order the calls were made and whichever flow made them, carries the i-th
\* entry pushed, and the queue holds the entries after them.  This stays so
\* in whatever order the handles are observed.
C15_ExactlyOnceInCallOrder ==
    \A p \in Queues :
        LET hs == HandlesFrom(handles, p) IN
        /\ Len(hs) <= Len(log[p])
        /\ \A i \in 1..Len(hs) : hs[i].settlement = Expected(log[p][i])
        /\ Len(results[p]) = Len(log[p]) - Len(hs)
        /\ \A i \in 1..Len(results[p]) :
              Pushed(results[p][i].type, results[p][i].content) = log[p][Len(hs) + i]

\* Two flows have each shifted one entry of queue B, called through A, and
\* the later handle has been observed before the earlier one.
C15_Witness ==
    /\ Len(handles) = 2
    /\ handles[1].from = "B"
    /\ handles[2].from = "B"
    /\ handles[1].flow = "f1"
    /\ handles[2].flow = "f2"
    /\ handles[1].settlement = [kind |-> "resolved", content |-> Plain("a")]
    /\ handles[2].settlement = [kind |-> "rejected", content |-> BaseError(Plain("b"))]
    /\ handles[2].seen
    /\ ~handles[1].seen
    /\ results["B"] = <<>>
\* The queues a call on q can reach by following parent.
RECURSIVE Reach(_, _)
Reach(q, seen) ==
    IF q = Undefined \/ q \in seen THEN seen
    ELSE Reach(options[q].parent, seen \cup {q})

\* Following parent from q never ends.
OnCycle(q) == \A p \in Reach(q, {}) : options[p].parent # Undefined

\* The frames entered go upwards from the called queue, each queue once.
UpwardsOnce ==
    /\ last.path[1] = last.q
    /\ \A i \in 1..(Len(last.path) - 1) : last.path[i + 1] = options[last.path[i]].parent
    /\ \A i, j \in 1..Len(last.path) : last.path[i] = last.path[j] => i = j

\* The branches a $query call ends in.
Shifted ==
    /\ last.from # Undefined
    /\ last.ret.kind \in {"resolved", "rejected"}
    /\ last.calls = <<>>
FellBack ==
    /\ last.from = Undefined
    /\ last.ret.kind = "returned"
    /\ Len(last.calls) = 1
Raised(e) ==
    /\ last.ret.kind = "thrown"
    /\ last.ret.error = e
    /\ last.calls = <<>>
    /\ (e = "InvalidQueryResultError") = (last.from # Undefined)

WalkSafe ==
    /\ (last.op \in {"query", "clearQueue"} /\ ~OnCycle(last.q)) => UpwardsOnce
    /\ (last.op = "query" /\ Idle /\ ~OnCycle(last.q)) =>
          Cardinality({i \in 1..4 :
              <<Shifted, FellBack, Raised("EmptyQueryQueueError"),
                Raised("InvalidQueryResultError")>>[i]}) = 1
    /\ (last.op = "clearQueue" /\ Idle /\ ~OnCycle(last.q)) =>
          /\ last.ret = ReturnThis
          /\ \A i \in 1..Len(last.path) : results[last.path[i]] = <<>>
          /\ (last.propagateClear => Last(last.path) \in Queues
                                     /\ options[Last(last.path)].parent = Undefined)
    /\ (/\ last.op = "query"
        /\ last.from = Undefined
        /\ OnCycle(last.q)
        /\ ~last.query.stopPropagation
        /\ \A p \in Reach(last.q, {}) : results[p] = <<>> /\ ~options[p].stopPropagation)
          => ~Idle
    /\ (last.op = "clearQueue" /\ last.propagateClear /\ OnCycle(last.q)) => ~Idle

\* C20: termination on acyclic chains.  Where following parent from the
\* called queue ends, every $query call and every propagating $clearQueue
\* call returns or throws, having entered each queue at most once, upwards
\* from the called queue; a $query ends in exactly one of: an entry shifted,
\* a fallbackFn called, EmptyQueryQueueError thrown, InvalidQueryResultError
\* thrown.  Where the parents form a cycle of empty queues without
\* stopPropagation a $query never reaches one of these, and a propagating
\* $clearQueue never returns.
C20_Termination ==
    /\ []WalkSafe
    /\ (~Idle /\ ~OnCycle(last.q)) ~> Idle

\* A query called on A has gone up the whole chain and called C's fallbackFn.
C20_Witness ==
    /\ last.op = "query"
    /\ Idle
    /\ last.path = <<"A", "B", "C">>
    /\ options["C"].parent = Undefined
    /\ FellBack
    /\ last.calls = <<FnOf("C")>>
====
